---- MODULE Spec2Model ----
(***************************************************************************)
(* Model of rastreador_app.py: the per-symbol fetcher                      *)
(* (get_yahoo_data_enhanced), the batch collector (processar_em_paralelo   *)
(* and the sequential loop of the script) and the screener (filter and     *)
(* ranking of the collected records).                                      *)
(*                                                                         *)
(* Numbers.  Python floats are modelled as exact rationals [n, d] with     *)
(* d > 0; NaN is the record with d = 0, and every comparison with NaN is   *)
(* false, as in IEEE arithmetic.  round(x, 2) is modelled on the rational  *)
(* value (ties to even).                                                   *)
(*                                                                         *)
(* Text.  A string is a sequence of tokens, so that strip, upper, replace  *)
(* and slicing act on it.                                                  *)
(***************************************************************************)
EXTENDS Integers, Sequences, FiniteSets, TLC

VARIABLES
    \* ---- one call of the fetcher (SpecFetch) ----
    fpc,              \* "call" | "ret" | "again": before the call, after its
                      \* return, after the return of a second call
    ticker,           \* the argument of get_yahoo_data_enhanced
    resp,             \* what the quote provider answers for this call
    ret,              \* what the call handed back: [dados, erro, raised, calls]
    anterior,         \* SpecScore: the fundamentals field that changed since
                      \* the call before, whether its scored value rose, and
                      \* the score of the call before
    \* ---- one script run (Spec) ----
    pc,               \* position of the script's main thread
    tickers_lista,    \* the symbols typed in the sidebar
    usar_paralelo,    \* sidebar checkbox
    max_workers,      \* sidebar slider
    filtros,          \* the sidebar thresholds and sector
    futures,          \* per submitted task: [state, dur, result]
    snapshot,         \* as_completed: futures found finished at its call and
                      \* not yet yielded
    finished_futures, \* as_completed: waiter.finished_futures (completion order)
    yielded,          \* as_completed: the futures already yielded
    idx,              \* index of the submission loop / of the sequential loop
    dados_coletados,  \* successes
    erros,            \* failures
    df_filtrado,      \* the filtered records of this run
    df_display,       \* the ranked table of this run
    df_resultados,    \* st.session_state['df_resultados']
    analisar,         \* the button's value in this run of the script
    conexao,          \* check_yfinance_connection() of this run of the script:
                      \* "?" before the call, then "ok" or "falhou"
    concluidos        \* the tasks that have completed and are not yet taken by
                      \* the as_completed loop, in their order of completion

fetchVars == <<fpc, ticker, resp, ret, anterior>>
runVars == <<pc, tickers_lista, usar_paralelo, max_workers, filtros, futures,
             snapshot, finished_futures, yielded, idx, dados_coletados, erros,
             df_filtrado, df_display, df_resultados, analisar, conexao,
             concluidos>>
vars == <<fetchVars, runVars>>

(***************************************************************************)
(* Floats                                                                  *)
(***************************************************************************)
R(n, d) == [n |-> n, d |-> d]
NaN == [n |-> 0, d |-> 0]
Zero == R(0, 1)
IsNaN(x) == x.d = 0
Lt(x, y) == ~IsNaN(x) /\ ~IsNaN(y) /\ x.n * y.d < y.n * x.d
Le(x, y) == ~IsNaN(x) /\ ~IsNaN(y) /\ x.n * y.d <= y.n * x.d
Gt(x, y) == Lt(y, x)
Ge(x, y) == Le(y, x)
EqF(x, y) == ~IsNaN(x) /\ ~IsNaN(y) /\ x.n * y.d = y.n * x.d
Mul(x, y) == IF IsNaN(x) \/ IsNaN(y) THEN NaN ELSE R(x.n * y.n, x.d * y.d)
\* x / y for y # 0 (the code divides only by values it has tested > 0)
Div(x, y) ==
    IF IsNaN(x) \/ IsNaN(y) THEN NaN
    ELSE IF y.n > 0 THEN R(x.n * y.d, x.d * y.n)
    ELSE R(-(x.n * y.d), x.d * (-y.n))

\* round(x, 2): the nearest multiple of 1/100
round2(x) ==
    IF IsNaN(x) THEN NaN
    ELSE LET q == (x.n * 100) \div x.d
             r == (x.n * 100) % x.d
             k == IF 2 * r > x.d THEN q + 1
                  ELSE IF 2 * r < x.d THEN q
                  ELSE IF q % 2 = 0 THEN q ELSE q + 1
         IN  R(k, 100)

\* round(x, 1): the nearest multiple of 1/10
round1(x) ==
    IF IsNaN(x) THEN NaN
    ELSE LET q == (x.n * 10) \div x.d
             r == (x.n * 10) % x.d
             k == IF 2 * r > x.d THEN q + 1
                  ELSE IF 2 * r < x.d THEN q
                  ELSE IF q % 2 = 0 THEN q ELSE q + 1
         IN  R(k, 10)

RECURSIVE mdc(_, _)
mdc(a, b) == IF b = 0 THEN a ELSE mdc(b, a % b)
\* the same value in lowest terms
Reduz(x) ==
    IF IsNaN(x) THEN NaN
    ELSE LET g == mdc(IF x.n < 0 THEN -x.n ELSE x.n, x.d)
         IN  R(x.n \div g, x.d \div g)
Add(x, y) ==
    IF IsNaN(x) \/ IsNaN(y) THEN NaN ELSE Reduz(R(x.n * y.d + y.n * x.d, x.d * y.d))
Neg(x) == IF IsNaN(x) THEN NaN ELSE R(-x.n, x.d)
Sub(x, y) == Add(x, Neg(y))
\* the sum of xs[a..b], by halves
RECURSIVE SomaDe(_, _, _)
SomaDe(xs, a, b) ==
    IF a > b THEN Zero
    ELSE IF a = b THEN xs[a]
    ELSE LET m == (a + b) \div 2
         IN  Add(SomaDe(xs, a, m), SomaDe(xs, m + 1, b))
Soma(xs) == SomaDe(xs, 1, Len(xs))

\* the greatest k in lo..hi with k * k <= m
RECURSIVE isqrt(_, _, _)
isqrt(m, lo, hi) ==
    IF lo = hi THEN lo
    ELSE LET mid == (lo + hi + 1) \div 2
         IN  IF mid * mid <= m THEN isqrt(m, mid, hi) ELSE isqrt(m, lo, mid - 1)
\* the square root of a value 0 <= x < 20, to the nearest 1/10000
raiz(x) ==
    IF IsNaN(x) THEN NaN
    ELSE LET y == Reduz(x)
             q1 == ((y.n % y.d) * 10000) \div y.d
             r1 == ((y.n % y.d) * 10000) % y.d
             m == ((y.n \div y.d) * 10000 + q1) * 10000 + (r1 * 10000) \div y.d
             k == isqrt(m, 0, 46340)
         IN  R(IF m - k * k > k THEN k + 1 ELSE k, 10000)

(***************************************************************************)
(* Text                                                                    *)
(***************************************************************************)
upper(tok) ==
    CASE tok = "petr4" -> "PETR4"
      [] tok = "vale3" -> "VALE3"
      [] tok = ".sa" -> ".SA"
      [] OTHER -> tok

RECURSIVE lstrip(_)
lstrip(s) == IF s # <<>> /\ Head(s) = " " THEN lstrip(Tail(s)) ELSE s
RECURSIVE rstrip(_)
rstrip(s) ==
    IF s # <<>> /\ s[Len(s)] = " " THEN rstrip(SubSeq(s, 1, Len(s) - 1)) ELSE s
strip(s) == rstrip(lstrip(s))
NotSA(tok) == tok # ".SA"

\* line 203: ticker.strip().upper().replace('.SA', '')
ticker_clean(t) ==
    LET u == [i \in 1..Len(strip(t)) |-> upper(strip(t)[i])]
    IN  SelectSeq(u, NotSA)

\* s[:n]
Slice(s, n) == SubSeq(s, 1, IF Len(s) < n THEN Len(s) ELSE n)

(***************************************************************************)
(* The fetcher: get_yahoo_data_enhanced                                    *)
(*                                                                         *)
(* A provider answer rs has one field per provider request:                *)
(*   rs.Ticker  [k: "ok" | "raise", text]             yf.Ticker(...)       *)
(*   rs.fast    [k: "raise" | "absent" | "None" | "num", v]   fast_info    *)
(*   rs.hist5d  [k: "raise" | "empty" | "rows", v]    history("5d"), last  *)
(*                                                    close                *)
(*   rs.info    [k: "raise" | "None" | "empty" | "nondict" | "dict", d]    *)
(*   rs.hist3mo [k: "raise" | "empty" | "rows", close]  history("3mo"),    *)
(*                                                    the closes           *)
(* and rs.info.d maps each key to a raw value [k, v, s] with k one of      *)
(* "absent", "None", "num", "Infinity", "NaN", "text", "list".             *)
(***************************************************************************)
None == <<>>
Some(x) == <<x>>

\* Python truthiness of an Optional[Dict] / Optional[str]
truthy(opt) == opt # None /\ opt[1] # <<>>

Chars == <<"a", "b", "c">>
\* an exception text of n characters
Text(n) == [i \in 1..n |-> Chars[(i % 3) + 1]]
\* str(TypeError) of a dict lookup with a list key: "unhashable type: 'list'"
UnhashableLen == 23

\* lines 252-261: safe_get(key, default, multiplier)
safe_get(info, key, default, multiplier) ==
    LET val == info[key]
    IN  CASE val.k = "absent" -> Mul(default, multiplier)
          [] val.k = "None" -> default
          [] val.k = "num" -> Mul(val.v, multiplier)
          [] OTHER -> default   \* not finite, or float(val) raised

\* a slip: the fraction range includes 1
normaliza_dy_ate_um(dy_raw) ==
    IF Lt(Zero, dy_raw) /\ Le(dy_raw, R(1, 1)) THEN Mul(dy_raw, R(100, 1))
    ELSE dy_raw
\* lines 264-265
normaliza_dy(dy_raw) ==
    IF Lt(Zero, dy_raw) /\ Lt(dy_raw, R(1, 1)) THEN Mul(dy_raw, R(100, 1))
    ELSE dy_raw

\* a slip: the per-share figures are never derived back from the ratios
correcoes_sem_inversa(preco_atual, lpa0, vpa0, pl0, pvp0) ==
    [pl |-> IF EqF(pl0, Zero) /\ Gt(lpa0, Zero) THEN Div(preco_atual, lpa0) ELSE pl0,
     pvp |-> IF EqF(pvp0, Zero) /\ Gt(vpa0, Zero) THEN Div(preco_atual, vpa0) ELSE pvp0,
     lpa |-> lpa0, vpa |-> vpa0]

\* lines 276-283: the four corrections, in the order of the code
correcoes(preco_atual, lpa0, vpa0, pl0, pvp0) ==
    LET pl == IF EqF(pl0, Zero) /\ Gt(lpa0, Zero) THEN Div(preco_atual, lpa0) ELSE pl0
        pvp == IF EqF(pvp0, Zero) /\ Gt(vpa0, Zero) THEN Div(preco_atual, vpa0) ELSE pvp0
        lpa == IF EqF(lpa0, Zero) /\ Gt(pl, Zero) THEN Div(preco_atual, pl) ELSE lpa0
        vpa == IF EqF(vpa0, Zero) /\ Gt(pvp, Zero) THEN Div(preco_atual, pvp) ELSE vpa0
    IN  [pl |-> pl, pvp |-> pvp, lpa |-> lpa, vpa |-> vpa]

\* lines 298-312
setor_map(raw) ==
    CASE raw = "Financial Services" -> "Financeiro"
      [] raw = "Basic Materials" -> "Materiais Basicos"
      [] raw = "Energy" -> "Energia"
      [] raw = "Utilities" -> "Utilidades Publicas"
      [] raw = "Industrials" -> "Industrial"
      [] raw = "Consumer Cyclical" -> "Consumo Ciclico"
      [] raw = "Consumer Defensive" -> "Consumo Nao Ciclico"
      [] raw = "Technology" -> "Tecnologia"
      [] raw = "Healthcare" -> "Saude"
      [] raw = "Real Estate" -> "Imobiliario"
      [] raw = "Communication Services" -> "Comunicacao"
      [] OTHER -> "?"
mapeia_setor(val) ==
    CASE val.k = "absent" -> "N/A"
      [] val.k = "None" -> "Outros"
      [] setor_map(val.s) # "?" -> setor_map(val.s)
      [] val.s = "" -> "Outros"
      [] OTHER -> val.s

\* the value of a rolling(window).mean() at the last position
media_movel(xs, window) ==
    IF Len(xs) < window THEN NaN
    ELSE Div(Soma(SubSeq(xs, Len(xs) - window + 1, Len(xs))), R(window, 1))

\* lines 155-158, from the two rolling means (statements are evaluated one
\* after the other, each on the values of the ones before it)
rsi_de(ganhos, perdas0) ==
    LET perdas == IF EqF(perdas0, Zero) THEN R(1, 10000) ELSE perdas0
        rs == Div(ganhos, perdas)
        rsi == Sub(R(100, 1), Div(R(100, 1), Add(R(1, 1), rs)))
    IN  IF IsNaN(rsi) THEN R(50, 1) ELSE rsi
\* lines 150-152: the two rolling means of the gains and of the losses
ganhos_de(delta, periodo) ==
    media_movel([i \in 1..Len(delta) |->
                    IF Gt(delta[i], Zero) THEN delta[i] ELSE Zero], periodo)
perdas_de(delta, periodo) ==
    media_movel([i \in 1..Len(delta) |->
                    IF Lt(delta[i], Zero) THEN Neg(delta[i]) ELSE Zero], periodo)
\* line 150: precos.diff(); the first difference is undefined
diff(precos) ==
    [i \in 1..Len(precos) |-> IF i = 1 THEN NaN ELSE Sub(precos[i], precos[i - 1])]

\* a slip: one point too few is let through to the computation
calcular_rsi_um_a_menos(precos, periodo) ==
    IF Len(precos) < periodo THEN R(50, 1)
    ELSE CHOOSE rsi \in {rsi_de(g, p) :
                            g \in {ganhos_de(diff(precos), periodo)},
                            p \in {perdas_de(diff(precos), periodo)}} : TRUE
\* lines 142-160: calcular_rsi (prices are finite and positive)
calcular_rsi(precos, periodo) ==
    IF Len(precos) < periodo + 1 THEN R(50, 1)
    ELSE CHOOSE rsi \in {rsi_de(g, p) :
                            g \in {ganhos_de(diff(precos), periodo)},
                            p \in {perdas_de(diff(precos), periodo)}} : TRUE

\* line 170: precos.pct_change().dropna()
pct_change(precos) ==
    [i \in 1..(Len(precos) - 1) |-> Sub(Div(precos[i + 1], precos[i]), R(1, 1))]
\* the sample variance (ddof = 1) of w around its mean
variancia(w, media) ==
    Div(Soma([i \in 1..Len(w) |-> Reduz(Mul(Sub(w[i], media), Sub(w[i], media)))]),
        R(Len(w) - 1, 1))
\* line 171: rolling(window=janela).std() at iloc[-1]
desvio_movel(retornos, janela) ==
    IF Len(retornos) < janela THEN NaN
    ELSE LET w == SubSeq(retornos, Len(retornos) - janela + 1, Len(retornos))
         IN  CHOOSE dp \in {raiz(v) : v \in {variancia(w, m) :
                                m \in {Div(Soma(w), R(janela, 1))}}} : TRUE
\* lines 162-173: calcular_volatilidade (prices are finite and positive)
calcular_volatilidade(precos, janela) ==
    IF Len(precos) < janela THEN Zero
    ELSE LET volatilidade == desvio_movel(pct_change(precos), janela)
         IN  IF IsNaN(volatilidade) THEN Zero ELSE Mul(volatilidade, R(100, 1))

\* lines 242-249: the closes of the 3-month history, or an empty series
hist_precos(rs) == IF rs.hist3mo.k = "rows" THEN rs.hist3mo.close ELSE <<>>
\* lines 315-316
tecnica(precos) ==
    [rsi |-> IF precos # <<>> THEN calcular_rsi(precos, 14) ELSE R(50, 1),
     volatilidade |-> IF precos # <<>> THEN calcular_volatilidade(precos, 30) ELSE Zero]

\* lines 324-332
score_roe(roe) ==
    IF Ge(roe, R(20, 1)) THEN 30
    ELSE IF Ge(roe, R(15, 1)) THEN 25
    ELSE IF Ge(roe, R(10, 1)) THEN 15
    ELSE IF Ge(roe, R(5, 1)) THEN 5
    ELSE 0
\* a slip: the upper ends of the bands are excluded
score_pl_estrito(pl) ==
    IF Lt(Zero, pl) /\ Lt(pl, R(10, 1)) THEN 25
    ELSE IF Le(R(10, 1), pl) /\ Lt(pl, R(15, 1)) THEN 20
    ELSE IF Le(R(15, 1), pl) /\ Lt(pl, R(20, 1)) THEN 10
    ELSE 0
\* lines 334-340
score_pl(pl) ==
    IF Lt(Zero, pl) /\ Le(pl, R(10, 1)) THEN 25
    ELSE IF Lt(R(10, 1), pl) /\ Le(pl, R(15, 1)) THEN 20
    ELSE IF Lt(R(15, 1), pl) /\ Le(pl, R(20, 1)) THEN 10
    ELSE 0
\* lines 342-348
score_margem(margem_liq) ==
    IF Ge(margem_liq, R(20, 1)) THEN 20
    ELSE IF Ge(margem_liq, R(10, 1)) THEN 15
    ELSE IF Ge(margem_liq, R(5, 1)) THEN 10
    ELSE 0
\* a slip: the points of the two upper bands are exchanged
score_dy_trocado(dividend_yield) ==
    IF Ge(dividend_yield, R(8, 1)) THEN 12
    ELSE IF Ge(dividend_yield, R(5, 1)) THEN 15
    ELSE IF Ge(dividend_yield, R(3, 1)) THEN 8
    ELSE 0
\* lines 350-356
score_dy(dividend_yield) ==
    IF Ge(dividend_yield, R(8, 1)) THEN 15
    ELSE IF Ge(dividend_yield, R(5, 1)) THEN 12
    ELSE IF Ge(dividend_yield, R(3, 1)) THEN 8
    ELSE 0
\* lines 358-362
score_liquidez(liquidez_corr) ==
    IF Ge(liquidez_corr, R(3, 2)) THEN 10
    ELSE IF Ge(liquidez_corr, R(1, 1)) THEN 5
    ELSE 0
\* lines 321-362: score starts at 0.0 and each block adds to it
calc_score(roe, pl, margem_liq, dividend_yield, liquidez_corr) ==
    0 + score_roe(roe) + score_pl(pl) + score_margem(margem_liq)
      + score_dy(dividend_yield) + score_liquidez(liquidez_corr)

\* lines 209-231: the price, and the provider requests made for it
preco_fast(rs) ==
    IF rs.fast.k = "num" /\ Gt(rs.fast.v, Zero) THEN rs.fast.v ELSE Zero
pede_hist5d(rs) == Le(preco_fast(rs), Zero)
resolve_preco(rs) ==
    IF pede_hist5d(rs) /\ rs.hist5d.k = "rows" THEN rs.hist5d.v
    ELSE preco_fast(rs)

\* lines 263-295: the local variables the score and the record are built from
extrai(preco_atual, info) ==
    LET c == correcoes(preco_atual,
                       safe_get(info, "trailingEps", Zero, R(1, 1)),
                       safe_get(info, "bookValue", Zero, R(1, 1)),
                       safe_get(info, "trailingPE", Zero, R(1, 1)),
                       safe_get(info, "priceToBook", Zero, R(1, 1)))
    IN  [dividend_yield |-> normaliza_dy(safe_get(info, "dividendYield", Zero, R(1, 1))),
         lpa |-> c.lpa, vpa |-> c.vpa, pl |-> c.pl, pvp |-> c.pvp,
         roe |-> safe_get(info, "returnOnEquity", Zero, R(100, 1)),
         margem_liq |-> safe_get(info, "profitMargins", Zero, R(100, 1)),
         liquidez_corr |-> safe_get(info, "currentRatio", Zero, R(1, 1)),
         divida_patrimonio |-> safe_get(info, "debtToEquity", Zero, R(1, 1))]

\* lines 364-384: the record
compila(tc, preco_atual, x, score, setor, t) ==
    [Acao |-> tc,
     Preco |-> round2(preco_atual),
     DY |-> round2(x.dividend_yield),
     LPA |-> round2(x.lpa),
     VPA |-> round2(x.vpa),
     ROE |-> round2(x.roe),
     Margem_Liq |-> round2(x.margem_liq),
     Liquidez_Corr |-> round2(x.liquidez_corr),
     P_L |-> round2(x.pl),
     P_VP |-> round2(x.pvp),
     Divida_PL |-> round2(x.divida_patrimonio),
     RSI |-> round1(t.rsi),
     Volatilidade |-> round2(t.volatilidade),
     Score |-> score,
     Setor |-> setor]

\* lines 251-384: from the price and a fundamentals dict to the record
processa(tc, preco_atual, info, precos) ==
    LET x == extrai(preco_atual, info)
    \* the technical metrics (lines 315-316) are values by the time the record
    \* of lines 364-384 is built
    IN  CHOOSE dados \in
            {compila(tc, preco_atual, x,
                     calc_score(x.roe, x.pl, x.margem_liq, x.dividend_yield,
                                x.liquidez_corr),
                     mapeia_setor(info["sector"]), t) : t \in {tecnica(precos)}} : TRUE

\* a slip: only a missing record is refused
info_invalida_so_none(inf) == inf.k = "None"
\* line 239: not info or not isinstance(info, dict)
info_invalida(inf) == inf.k # "dict"

\* what a call hands back: (dados, erro), or an exception leaving the function
Returns(dados, erro, calls) ==
    [dados |-> dados, erro |-> erro, raised |-> FALSE, calls |-> calls]
Raises(calls) ==
    [dados |-> None, erro |-> None, raised |-> TRUE, calls |-> calls]

\* a slip: no handler around the whole function, the exception leaves it
except_geral_ausente(tc, text, calls) == Raises(calls)
\* a slip: the exception text is not cut
except_geral_sem_corte(tc, text, calls) ==
    Returns(None, Some(tc \o <<": ">> \o text), calls)
\* lines 392-393: except Exception as e
except_geral(tc, text, calls) ==
    Returns(None, Some(tc \o <<": ">> \o Slice(text, 50)), calls)

\* lines 197-393
get_yahoo_data_enhanced(t, rs) ==
    LET tc == ticker_clean(t)
        c1 == <<"Ticker">>
        c2 == c1 \o <<"fast_info">>
        c3 == IF pede_hist5d(rs) THEN c2 \o <<"history5d">> ELSE c2
        c4 == c3 \o <<"info">>
        c5 == c4 \o <<"history3mo">>
        preco_atual == resolve_preco(rs)
    IN  IF rs.Ticker.k = "raise" THEN except_geral(tc, rs.Ticker.text, c1)
        ELSE IF Le(preco_atual, Zero)
            THEN Returns(None, Some(tc \o <<": ", "Preco nao disponivel">>), c3)
        ELSE IF rs.info.k = "raise"
            THEN Returns(None, Some(tc \o <<": ", "Erro ao obter fundamentos">>), c4)
        ELSE IF info_invalida(rs.info)
            THEN Returns(None, Some(tc \o <<": ", "Informacoes vazias">>), c4)
        ELSE IF rs.info.d["sector"].k = "list"
            THEN except_geral(tc, Text(UnhashableLen), c5)
        ELSE Returns(Some(processa(tc, preco_atual, rs.info.d, hist_precos(rs))), None, c5)

(***************************************************************************)
(* Provider answers                                                        *)
(***************************************************************************)
Num(n, d) == [k |-> "num", v |-> R(n, d), s |-> ""]
Raw(k) == [k |-> k, v |-> Zero, s |-> ""]
Str(s) == [k |-> "str", v |-> Zero, s |-> s]
Ans(k) == [k |-> k, v |-> Zero, text |-> <<>>]
Val(n, d) == [k |-> "num", v |-> R(n, d), text |-> <<>>]
Rows(x) == [k |-> "rows", v |-> x, text |-> <<>>]
Exc(n) == [k |-> "raise", v |-> Zero, text |-> Text(n)]
Hist(k, close) == [k |-> k, v |-> Zero, text |-> <<>>, close |-> close]
\* n closes: all 10; 10 and 20 in turn; 10, 11, 12, ...; all 10 and a last 20
Serie(n, forma) ==
    [i \in 1..n |->
        CASE forma = "constante" -> R(10, 1)
          [] forma = "zigzag" -> IF i % 2 = 1 THEN R(10, 1) ELSE R(20, 1)
          [] forma = "subida" -> R(9 + i, 1)
          [] OTHER -> IF i = n THEN R(20, 1) ELSE R(10, 1)]

Keys == {"dividendYield", "trailingEps", "bookValue", "trailingPE", "priceToBook",
         "returnOnEquity", "profitMargins", "currentRatio", "debtToEquity", "sector"}

\* the scenario of the specification's section 8: EPS 3, book value 15, ROE 22,
\* P/E 0, net margin 18, dividend yield 0.09, current ratio 1.6
InfoAAA ==
    [key \in Keys |->
        CASE key = "dividendYield" -> Num(9, 100)
          [] key = "trailingEps" -> Num(3, 1)
          [] key = "bookValue" -> Num(15, 1)
          [] key = "trailingPE" -> Num(0, 1)
          [] key = "priceToBook" -> Num(0, 1)
          [] key = "returnOnEquity" -> Num(22, 100)
          [] key = "profitMargins" -> Num(18, 100)
          [] key = "currentRatio" -> Num(16, 10)
          [] key = "debtToEquity" -> Num(1, 2)
          [] OTHER -> Str("Energy")]
Dict(d) == [k |-> "dict", d |-> d, text |-> <<>>]
NoDict(k) == [k |-> k, d |-> InfoAAA, text |-> <<>>]
RespAAA ==
    [Ticker |-> Ans("ok"), fast |-> Val(30, 1), hist5d |-> Rows(R(30, 1)),
     info |-> Dict(InfoAAA), hist3mo |-> Hist("empty", <<>>)]

Tickers == {<<"PETR4">>, <<"VALE3", ".SA">>, <<" ", "petr4", ".sa", " ">>}

\* exception texts: empty, short, exactly the cut, one past it, long
TextLens == {0, 10, 50, 51, 80}

\* answers that exercise the price fallback, the fundamentals request and
\* every place an exception can come from
TickerAns == {Ans("ok")} \cup {Exc(n) : n \in TextLens}
FastAns == {Ans("raise"), Ans("absent"), Ans("None"), Val(0, 1), Val(-1, 1),
            Val(30, 1), [k |-> "num", v |-> NaN, text |-> <<>>]}
Hist5dAns == {Ans("raise"), Ans("empty"), Rows(R(30, 1)), Rows(Zero), Rows(NaN)}
SectorRaw == {Raw("absent"), Raw("None"), Raw("list"), Str(""), Str("Energy"),
              Str("Cooperativa")}
InfoAns == {NoDict("raise"), NoDict("None"), NoDict("empty"), NoDict("nondict")}
           \cup {Dict([InfoAAA EXCEPT !["sector"] = sr]) : sr \in SectorRaw}
Hist3moAns == {Hist("raise", <<>>), Hist("empty", <<>>), Hist("rows", Serie(5, "subida"))}
RespsCaminhos ==
    [Ticker : TickerAns, fast : FastAns, hist5d : Hist5dAns, info : InfoAns,
     hist3mo : Hist3moAns]

\* answers that exercise the extraction and the corrections of lines 263-283
PrecoAns == {Val(1, 100), Val(30, 1), Val(50, 1), Val(100, 1), Ans("absent")}
EpsRaw == {Raw("absent"), Num(0, 1), Num(3, 1), Num(10, 1), Num(-2, 1), Num(2500, 1)}
PeRaw == {Raw("None"), Num(0, 1), Num(10, 1), Num(25, 1), Num(-5, 1), Raw("Infinity")}
BvRaw == {Num(0, 1), Num(15, 1), Num(25, 1), Raw("NaN")}
PbRaw == {Num(0, 1), Num(2, 1), Raw("text")}
RespsValuation ==
    {[RespAAA EXCEPT !.fast = pr, !.hist5d = Rows(NaN),
                     !.info = Dict([InfoAAA EXCEPT !["trailingEps"] = e,
                                                   !["trailingPE"] = pe,
                                                   !["bookValue"] = bv,
                                                   !["priceToBook"] = pb])] :
        pr \in PrecoAns, e \in EpsRaw, pe \in PeRaw, bv \in BvRaw, pb \in PbRaw}

\* answers that exercise the dividend yield of lines 264-265: a fraction, a
\* percent, 0, the ends of the fraction range, a negative value, no value
DyNorm == {Num(0, 1), Num(5, 100), Num(5, 1), Num(1, 1), Num(-5, 100), Num(999, 1000),
           Num(1, 1000), Num(3, 2), Raw("None"), Raw("absent"), Raw("NaN")}
RespsDY ==
    {[RespAAA EXCEPT !.info = Dict([InfoAAA EXCEPT !["dividendYield"] = dy])] :
        dy \in DyNorm}

\* answers that exercise the technical metrics: series on both sides of the
\* 15 points of the RSI and of the 30 points (31 for 30 returns) of the
\* volatility
SeriesTecnica ==
    {Serie(n, "constante") : n \in {1, 14, 15, 29, 30, 31}}
    \cup {Serie(n, "zigzag") : n \in {14, 15, 16, 30, 31, 32}}
    \cup {Serie(n, "subida") : n \in {2, 14, 15, 16}}
    \cup {Serie(n, "salto") : n \in {14, 15, 29, 30, 31}}
RespsTecnica ==
    {[RespAAA EXCEPT !.hist3mo = h] :
        h \in {Hist("raise", <<>>), Hist("empty", <<>>)}
               \cup {Hist("rows", c) : c \in SeriesTecnica}}

(***************************************************************************)
(* SpecFetch: one call of the fetcher on every answer above                *)
(***************************************************************************)
RunIdle ==
    /\ pc = "idle"
    /\ tickers_lista = <<>>
    /\ usar_paralelo = FALSE
    /\ max_workers = 1
    /\ filtros = <<>>
    /\ futures = <<>>
    /\ snapshot = {}
    /\ finished_futures = <<>>
    /\ yielded = {}
    /\ idx = 0
    /\ dados_coletados = <<>>
    /\ erros = <<>>
    /\ df_filtrado = None
    /\ df_display = None
    /\ df_resultados = None
    /\ analisar = FALSE
    /\ conexao = "?"
    /\ concluidos = <<>>

InitFetch ==
    /\ fpc = "call"
    /\ \/ ticker \in Tickers /\ resp \in RespsCaminhos
       \/ ticker = <<"PETR4">> /\ resp \in RespsValuation
       \/ ticker = <<"PETR4">> /\ resp \in RespsDY
       \/ ticker = <<"PETR4">> /\ resp \in RespsTecnica
    /\ ret = Returns(None, None, <<>>)
    /\ anterior = None
    /\ RunIdle

\* the call runs to its return
Fetch ==
    /\ fpc = "call"
    /\ fpc' = "ret"
    /\ ret' = get_yahoo_data_enhanced(ticker, resp)
    /\ UNCHANGED <<ticker, resp, anterior, runVars>>

NextFetch == Fetch
SpecFetch == InitFetch /\ [][NextFetch]_vars

(***************************************************************************)
(* SpecScore: the score over the bands of every rubric input, and the      *)
(* same symbol fetched again after one fundamentals field has changed      *)
(***************************************************************************)
RoeRaw == {Num(4, 100), Num(5, 100), Num(10, 100), Num(15, 100), Num(20, 100)}
PlRaw == {Num(0, 1), Num(10, 1), Num(12, 1), Num(15, 1), Num(20, 1), Num(25, 1)}
MargemRaw == {Num(4, 100), Num(5, 100), Num(10, 100), Num(20, 100)}
DyRaw == {Num(0, 1), Num(3, 100), Num(5, 100), Num(8, 100), Num(5, 1)}
LiquidezRaw == {Num(9, 10), Num(1, 1), Num(15, 10)}
EpsScore == {Num(0, 1), Num(3, 1)}

RubricKeys == {"returnOnEquity", "trailingPE", "profitMargins", "dividendYield",
               "currentRatio"}
RubricRaw(key) ==
    CASE key = "returnOnEquity" -> RoeRaw
      [] key = "trailingPE" -> PlRaw
      [] key = "profitMargins" -> MargemRaw
      [] key = "dividendYield" -> DyRaw
      [] OTHER -> LiquidezRaw
\* the scored local variable a fundamentals field feeds
Scored(x, key) ==
    CASE key = "returnOnEquity" -> x.roe
      [] key = "trailingPE" -> x.pl
      [] key = "profitMargins" -> x.margem_liq
      [] key = "dividendYield" -> x.dividend_yield
      [] OTHER -> x.liquidez_corr

RespsScore ==
    {[RespAAA EXCEPT !.info = Dict([InfoAAA EXCEPT !["returnOnEquity"] = r,
                                                   !["trailingPE"] = pe,
                                                   !["profitMargins"] = m,
                                                   !["dividendYield"] = dy,
                                                   !["currentRatio"] = cr,
                                                   !["trailingEps"] = e])] :
        r \in RoeRaw, pe \in PlRaw, m \in MargemRaw, dy \in DyRaw,
        cr \in LiquidezRaw, e \in EpsScore}
    \cup {RespAAA}

Extraido(rs) == extrai(resolve_preco(rs), rs.info.d)

InitScore ==
    /\ fpc = "call"
    /\ ticker = <<"PETR4">>
    /\ resp \in RespsScore
    /\ ret = Returns(None, None, <<>>)
    /\ anterior = None
    /\ RunIdle

\* the provider now reports another value for one field, and the symbol is
\* fetched again
Refetch ==
    /\ fpc = "ret"
    /\ \E key \in RubricKeys : \E val \in RubricRaw(key) \ {resp.info.d[key]} :
          LET rs == [resp EXCEPT !.info.d[key] = val]
          IN  /\ resp' = rs
              /\ ret' = get_yahoo_data_enhanced(ticker, rs)
              /\ anterior' = Some([campo |-> key,
                                   sobe |-> Gt(Scored(Extraido(rs), key),
                                               Scored(Extraido(resp), key)),
                                   de |-> Scored(Extraido(resp), key),
                                   score |-> ret.dados[1].Score])
    /\ fpc' = "again"
    /\ UNCHANGED <<ticker, runVars>>

NextScore == Fetch \/ Refetch
SpecScore == InitScore /\ [][NextScore]_vars

(***************************************************************************)
(* Properties of the fetcher                                               *)
(***************************************************************************)
Voltou == fpc # "call"
Sucesso == Voltou /\ truthy(ret.dados)
Reached(c) == \E i \in 1..Len(ret.calls) : ret.calls[i] = c
AnsOf(c) ==
    CASE c = "Ticker" -> resp.Ticker
      [] c = "fast_info" -> resp.fast
      [] c = "history5d" -> resp.hist5d
      [] c = "info" -> resp.info
      [] OTHER -> resp.hist3mo
\* the failure message is the symbol, ": " and the first 50 characters of text
MensagemCortada(text) ==
    /\ ret.dados = None
    /\ ret.erro # None
    /\ LET m == ret.erro[1]
           tc == ticker_clean(ticker)
           corpo == SubSeq(m, Len(tc) + 2, Len(m))
       IN  /\ SubSeq(m, 1, Len(tc) + 1) = tc \o <<": ">>
           /\ Len(corpo) = (IF Len(text) < 50 THEN Len(text) ELSE 50)
           /\ \A i \in 1..Len(corpo) : corpo[i] = text[i]
MensagemFixa(msgs) ==
    /\ ret.dados = None
    /\ \E m \in msgs : ret.erro = Some(ticker_clean(ticker) \o <<": ", m>>)

\* C4 as claimed: an exception raised at ANY step of the sequence becomes a
\* failure whose message is the symbol followed by the exception text cut to
\* 50 characters, with no result beside it.
C4_AnyStepExceptionIsReported ==
    Voltou =>
        \A c \in {"Ticker", "fast_info", "history5d", "info", "history3mo"} :
            (Reached(c) /\ AnsOf(c).k = "raise") => MensagemCortada(AnsOf(c).text)

\* C4 amended: the fetcher never lets an exception out and returns exactly one
\* of a record and a failure message.  An exception of the provider object's
\* creation or of the sector lookup becomes a failure whose message is the
\* symbol followed by the exception text cut to 50 characters; an exception of
\* the fundamentals request becomes the fixed failure "Erro ao obter
\* fundamentos"; an exception of the snapshot or of a history request is
\* swallowed and is not reported at all.
C4_FetcherNeverRaises ==
    Voltou =>
        /\ ~ret.raised
        /\ truthy(ret.dados) # truthy(ret.erro)
        /\ (ret.dados = None) # (ret.erro = None)
        /\ resp.Ticker.k = "raise" => MensagemCortada(resp.Ticker.text)
        /\ (Reached("history3mo") /\ resp.info.d["sector"].k = "list")
              => MensagemCortada(Text(UnhashableLen))
        /\ (Reached("info") /\ resp.info.k = "raise")
              => MensagemFixa({"Erro ao obter fundamentos"})
        /\ (resp.Ticker.k = "ok" /\ resp.fast.k = "raise" /\ resp.hist5d.k = "rows"
            /\ Gt(resp.hist5d.v, Zero) /\ resp.info.k = "dict"
            /\ resp.info.d["sector"].k # "list") => truthy(ret.dados)
        /\ (Reached("history3mo") /\ resp.hist3mo.k = "raise"
            /\ resp.info.d["sector"].k # "list") => truthy(ret.dados)
C4_Witness ==
    /\ fpc = "ret"
    /\ resp.Ticker.k = "raise"
    /\ Len(resp.Ticker.text) = 80
    /\ ret.erro # None
    /\ Len(ret.erro[1]) = Len(ticker_clean(ticker)) + 1 + 50

\* a positive price was resolved from the snapshot or from the 5-day history
PrecoPositivo ==
    \/ resp.fast.k = "num" /\ Gt(resp.fast.v, Zero)
    \/ resp.hist5d.k = "rows" /\ Gt(resp.hist5d.v, Zero)

\* C5: when the fundamentals request raises or returns an empty or non-dict
\* record after a positive price was resolved, the fetcher returns a failure
\* (fundamentals unavailable) and no record at all.
C5_NoFundamentalsIsFailure ==
    (Voltou /\ resp.Ticker.k = "ok" /\ PrecoPositivo /\ resp.info.k # "dict") =>
        /\ ~ret.raised
        /\ ~truthy(ret.dados)
        /\ MensagemFixa({"Erro ao obter fundamentos", "Informacoes vazias"})
C5_Witness ==
    /\ fpc = "ret"
    /\ resp.Ticker.k = "ok"
    /\ resp.fast.k = "num" /\ Gt(resp.fast.v, Zero)
    /\ resp.info.k = "nondict"
    /\ ret.dados = None
    /\ ret.erro = Some(ticker_clean(ticker) \o <<": ", "Informacoes vazias">>)

\* the rubric of the specification, as a table: the best points among the
\* thresholds the value meets
Maximo(S) == CHOOSE m \in S : \A o \in S : o <= m
PontosMin(v, tabela) ==
    Maximo({0} \cup {t[2] : t \in {u \in tabela : Ge(v, u[1])}})
PontosMax(v, tabela) ==
    IF Gt(v, Zero) THEN Maximo({0} \cup {t[2] : t \in {u \in tabela : Le(v, u[1])}})
    ELSE 0
Rubrica(x) ==
    PontosMin(x.roe, {<<R(20, 1), 30>>, <<R(15, 1), 25>>, <<R(10, 1), 15>>, <<R(5, 1), 5>>})
    + PontosMax(x.pl, {<<R(10, 1), 25>>, <<R(15, 1), 20>>, <<R(20, 1), 10>>})
    + PontosMin(x.margem_liq, {<<R(20, 1), 20>>, <<R(10, 1), 15>>, <<R(5, 1), 10>>})
    + PontosMin(x.dividend_yield, {<<R(8, 1), 15>>, <<R(5, 1), 12>>, <<R(3, 1), 8>>})
    + PontosMin(x.liquidez_corr, {<<R(3, 2), 10>>, <<R(1, 1), 5>>})

\* C8: the score of a record is the sum of the five rubric components of the
\* values it was built from, lies in 0..100, and the scenario price 30, EPS 3,
\* ROE 22, P/E 0, net margin 18, dividend yield 0.09, current ratio 1.6 has
\* P/E 10 and score 95.
C8_ScoreIsRubricSum ==
    Sucesso =>
        /\ ret.dados[1].Score = Rubrica(Extraido(resp))
        /\ ret.dados[1].Score \in 0..100
        /\ resp = RespAAA =>
              /\ EqF(ret.dados[1].P_L, R(10, 1))
              /\ EqF(ret.dados[1].DY, R(9, 1))
              /\ ret.dados[1].Score = 95
C8_Witness == fpc = "ret" /\ resp = RespAAA /\ ret.dados # None /\ ret.dados[1].Score = 95

\* C9 as claimed: raising any one rubric input, the others fixed, never lowers
\* the score.
C9_MonotoneInEveryInput ==
    (fpc = "again" /\ anterior[1].sobe) => ret.dados[1].Score >= anterior[1].score

\* C9 amended: raising return on equity, net margin, the normalised dividend
\* yield or the current ratio, the others fixed, never lowers the score; raising
\* a positive price/earnings never raises it (the score is non-increasing in a
\* positive P/E), and a P/E that becomes positive never lowers it.
C9_MonotoneButDecreasingInPL ==
    (fpc = "again" /\ anterior[1].sobe) =>
        IF anterior[1].campo = "trailingPE" /\ Gt(anterior[1].de, Zero)
        THEN ret.dados[1].Score <= anterior[1].score
        ELSE ret.dados[1].Score >= anterior[1].score
C9_Witness ==
    /\ fpc = "again"
    /\ anterior[1].campo = "trailingPE"
    /\ anterior[1].sobe
    /\ Gt(anterior[1].de, Zero)
    /\ ret.dados[1].Score < anterior[1].score

\* the number the extraction reads for a field (0.0 unless a finite number)
Lido(key) == IF resp.info.d[key].k = "num" THEN resp.info.d[key].v ELSE Zero
Igual(a, b) == (IsNaN(a) /\ IsNaN(b)) \/ EqF(a, b)
Incoerente(razao, porAcao) ==
    \/ EqF(razao, Zero) /\ Gt(porAcao, Zero)
    \/ EqF(porAcao, Zero) /\ Gt(razao, Zero)

\* C10 as claimed: no record has P/E = 0 with EPS > 0 or EPS = 0 with P/E > 0,
\* nor P/B = 0 with book value > 0 or book value = 0 with P/B > 0.
C10_RecordNeverInconsistent ==
    Sucesso =>
        /\ ~Incoerente(ret.dados[1].P_L, ret.dados[1].LPA)
        /\ ~Incoerente(ret.dados[1].P_VP, ret.dados[1].VPA)

\* C10 amended: the values that are scored are never inconsistent: a P/E read as
\* 0 with EPS > 0 is price / EPS, an EPS read as 0 with P/E > 0 is price / P/E
\* (the same for P/B and book value), and the record holds those values rounded
\* to 2 decimals, so that a quotient below 0.005 is written 0.0 beside its
\* positive counterpart.  Price 100, P/E 0, EPS 10 gives P/E 10.0 and price 50,
\* P/B 0, book value 25 gives P/B 2.0.
C10_ScoredValuesConsistent ==
    Sucesso =>
        LET d == ret.dados[1]
            p == resolve_preco(resp)
            x == Extraido(resp)
        IN  /\ ~Incoerente(x.pl, x.lpa)
            /\ ~Incoerente(x.pvp, x.vpa)
            /\ (EqF(Lido("trailingPE"), Zero) /\ Gt(Lido("trailingEps"), Zero))
                  => Igual(d.P_L, round2(Div(p, Lido("trailingEps"))))
            /\ (EqF(Lido("trailingEps"), Zero) /\ Gt(Lido("trailingPE"), Zero))
                  => Igual(d.LPA, round2(Div(p, Lido("trailingPE"))))
            /\ (EqF(Lido("priceToBook"), Zero) /\ Gt(Lido("bookValue"), Zero))
                  => Igual(d.P_VP, round2(Div(p, Lido("bookValue"))))
            /\ (EqF(Lido("bookValue"), Zero) /\ Gt(Lido("priceToBook"), Zero))
                  => Igual(d.VPA, round2(Div(p, Lido("priceToBook"))))
            /\ (EqF(p, R(100, 1)) /\ EqF(Lido("trailingPE"), Zero)
                /\ EqF(Lido("trailingEps"), R(10, 1))) => d.P_L = R(1000, 100)
            /\ (EqF(p, R(50, 1)) /\ EqF(Lido("priceToBook"), Zero)
                /\ EqF(Lido("bookValue"), R(25, 1))) => d.P_VP = R(200, 100)
C10_Witness ==
    /\ Sucesso
    /\ EqF(resolve_preco(resp), R(100, 1))
    /\ resp.info.d["trailingPE"] = Num(0, 1)
    /\ resp.info.d["trailingEps"] = Num(10, 1)
    /\ resp.info.d["priceToBook"] = Num(2, 1)
    /\ resp.info.d["bookValue"] = Num(0, 1)
    /\ ret.dados[1].P_L = R(1000, 100)
    /\ ret.dados[1].VPA = R(5000, 100)

\* C13: a raw dividend yield strictly between 0 and 1 is a fraction and is
\* multiplied by 100; any other value (0, negative, exactly 1, above 1) is kept
\* as it is.  0.05 gives 5.0, 5.0 gives 5.0 and 0 gives 0.
C13_DividendYieldNormalised ==
    (Sucesso /\ resp.info.d["dividendYield"].k = "num") =>
        LET v == resp.info.d["dividendYield"].v
            dy == ret.dados[1].DY
        IN  /\ (Lt(Zero, v) /\ Lt(v, R(1, 1))) => EqF(dy, round2(R(v.n * 100, v.d)))
            /\ (Le(v, Zero) \/ Ge(v, R(1, 1))) => EqF(dy, round2(v))
            /\ v = R(5, 100) => dy = R(500, 100)
            /\ v = R(5, 1) => dy = R(500, 100)
            /\ v = R(0, 1) => dy = R(0, 100)
            /\ v = R(1, 1) => dy = R(100, 100)
            /\ v = R(-5, 100) => dy = R(-5, 100)
            /\ v = R(3, 2) => dy = R(150, 100)
C13_Witness ==
    /\ Sucesso
    /\ resp.info.d["dividendYield"] = Num(5, 100)
    /\ ret.dados[1].DY = R(500, 100)

\* C14 as claimed: the snapshot price is asked first and used when present
\* and positive; the 5-day history is asked only when the snapshot is absent,
\* non-positive or raised, and then its last close is used; a record is
\* produced only with a price > 0, and when neither source gives a positive
\* price the outcome is the failure "Preco nao disponivel" and the fundamentals
\* are not requested.
SnapshotPositivo == resp.fast.k = "num" /\ Gt(resp.fast.v, Zero)
C14_PriceFallbackOrder ==
    (Voltou /\ resp.Ticker.k = "ok") =>
        /\ Len(ret.calls) >= 2 /\ ret.calls[2] = "fast_info"
        /\ Reached("history5d") <=> ~SnapshotPositivo
        /\ Reached("history5d") => ret.calls[3] = "history5d"
        /\ Sucesso =>
              /\ Gt(ret.dados[1].Preco, Zero)
              /\ ret.dados[1].Preco =
                    round2(IF SnapshotPositivo THEN resp.fast.v ELSE resp.hist5d.v)
        /\ ~PrecoPositivo =>
              /\ MensagemFixa({"Preco nao disponivel"})
              /\ ~Reached("info")

\* C16 as claimed: a raw sector of the lookup table is replaced by its display
\* name ("Energy" by "Energia"), a non-empty raw sector that is not in the
\* table passes through unchanged, and an empty or missing sector (key absent,
\* null or empty string) gives "Outros".
SetorVazio ==
    \/ resp.info.d["sector"].k \in {"absent", "None"}
    \/ resp.info.d["sector"].k = "str" /\ resp.info.d["sector"].s = ""
C16_SectorMapping ==
    Sucesso =>
        LET raw == resp.info.d["sector"]
            setor == ret.dados[1].Setor
        IN  /\ (raw.k = "str" /\ raw.s = "Energy") => setor = "Energia"
            /\ (raw.k = "str" /\ raw.s = "Cooperativa") => setor = "Cooperativa"
            /\ (raw.k = "str" /\ raw.s # "" /\ setor_map(raw.s) = "?") => setor = raw.s
            /\ SetorVazio => setor = "Outros"

\* C17: absence of price history never fails a symbol: when the 3-month
\* history request raises or returns empty, and a positive price and valid
\* fundamentals (a non-empty dict whose sector can be looked up) were obtained,
\* the fetcher still returns a record, with RSI = 50.0 and volatility = 0.0;
\* whether a record is returned never depends on the history; and RSI is
\* exactly 50.0 for every series shorter than 15 points, volatility exactly
\* 0.0 for every series shorter than 30 points.
HistAusente == resp.hist3mo.k \in {"raise", "empty"}
FundamentosValidos ==
    /\ resp.info.k = "dict"
    /\ ~info_invalida(resp.info)
    /\ resp.info.d["sector"].k # "list"
C17_NoHistoryKeepsDefaults ==
    /\ (Voltou /\ resp.Ticker.k = "ok" /\ PrecoPositivo /\ FundamentosValidos
           /\ HistAusente) =>
          /\ Sucesso
          /\ ret.erro = None
          /\ ret.dados[1].RSI = R(500, 10)
          /\ ret.dados[1].Volatilidade = R(0, 100)
    /\ Voltou =>
          \A h \in {Hist("raise", <<>>), Hist("empty", <<>>),
                    Hist("rows", Serie(31, "zigzag"))} :
             truthy(get_yahoo_data_enhanced(ticker, [resp EXCEPT !.hist3mo = h]).dados)
                <=> Sucesso
    /\ Sucesso =>
          /\ HistAusente =>
                /\ ret.dados[1].RSI = R(500, 10)
                /\ ret.dados[1].Volatilidade = R(0, 100)
          /\ Len(hist_precos(resp)) < 14 + 1 => ret.dados[1].RSI = R(500, 10)
          /\ Len(hist_precos(resp)) < 30 => ret.dados[1].Volatilidade = R(0, 100)
    /\ \A c \in SeriesTecnica :
          /\ Len(c) < 14 + 1 => calcular_rsi(c, 14) = R(50, 1)
          /\ Len(c) < 30 => calcular_volatilidade(c, 30) = Zero
C17_Witness ==
    /\ fpc = "ret"
    /\ resp.Ticker.k = "ok" /\ PrecoPositivo /\ FundamentosValidos
    /\ resp.hist3mo.k = "raise"
    /\ Sucesso
    /\ ret.dados[1].RSI = R(500, 10)
    /\ ret.dados[1].Volatilidade = R(0, 100)
\* the defaults are not what a long enough series gives
TecnicaCalculada ==
    /\ fpc = "ret" /\ Sucesso
    /\ resp.hist3mo.k = "rows" /\ Len(resp.hist3mo.close) = 31
    /\ ret.dados[1].RSI = R(1000, 10)
    /\ ret.dados[1].Volatilidade = R(1826, 100)

(***************************************************************************)
(* The screener: lines 574-632                                             *)
(***************************************************************************)
\* the sidebar defaults (lines 436-450)
FiltrosPadrao ==
    [min_dy |-> R(4, 1), min_roe |-> R(10, 1), min_score |-> 40, max_pl |-> R(20, 1),
     max_pvp |-> R(3, 2), max_divida |-> R(2, 1), setor |-> "Todos"]

\* a slip: the lower ends of the two valuation ranges are not tested
passa_sem_piso(d, f) ==
    /\ Ge(d.DY, f.min_dy)
    /\ Ge(d.ROE, f.min_roe)
    /\ Le(d.P_L, f.max_pl)
    /\ Le(d.P_VP, f.max_pvp)
    /\ Le(d.Divida_PL, f.max_divida)
    /\ d.Score >= f.min_score
\* lines 579-588: the mask
passa(d, f) ==
    /\ Ge(d.DY, f.min_dy)
    /\ Ge(d.ROE, f.min_roe)
    /\ Gt(d.P_L, Zero)
    /\ Le(d.P_L, f.max_pl)
    /\ Gt(d.P_VP, Zero)
    /\ Le(d.P_VP, f.max_pvp)
    /\ Le(d.Divida_PL, f.max_divida)
    /\ d.Score >= f.min_score
\* lines 590-591
passa_setor(d, f) == f.setor # "Todos" => d.Setor = f.setor

\* a boolean mask keeps the rows in their order
RECURSIVE filtra(_, _)
filtra(df, f) ==
    IF df = <<>> THEN <<>>
    ELSE IF passa(Head(df), f) /\ passa_setor(Head(df), f)
         THEN <<Head(df)>> \o filtra(Tail(df), f)
         ELSE filtra(Tail(df), f)

Perms(n) == {p \in [1..n -> 1..n] : \A i, j \in 1..n : p[i] = p[j] => i = j}
Decrescente(df) == \A i \in 1..(Len(df) - 1) : df[i].Score >= df[i + 1].Score
\* line 631: sort_values("Score", ascending=False) with pandas' default
\* kind='quicksort', which is not a stable sort: every descending arrangement
\* of the rows is a possible outcome
sort_values(df) ==
    {o \in {[i \in 1..Len(df) |-> df[p[i]]] : p \in Perms(Len(df))} : Decrescente(o)}

(***************************************************************************)
(* The batch collector: processar_em_paralelo and the sequential loop      *)
(***************************************************************************)
NumTickers == 2
FutureTimeout == 15
\* how long a fetch takes: within the timeout of line 409, or longer
DurRapida == 1
DurLenta == 16
Duracoes == {DurRapida, DurLenta}

Com(campos) == [RespAAA EXCEPT !.info = Dict(campos)]
\* passes the default thresholds: DY 9, ROE 22, P/L 10, P/VP 1.2, debt 0.5
InfoBoa == [InfoAAA EXCEPT !["bookValue"] = Num(25, 1)]

Simbolos == {<<"PETR4">>, <<"VALE3", ".SA">>}
Listas == [1..NumTickers -> Simbolos]
\* line 492: the slider (3 to 10, default 5), or 1 without the checkbox; the
\* lists are no longer than the slider's least value, which stands for all
Workers(paralelo) == IF paralelo THEN {3} ELSE {1}

RespBoa == Com(InfoBoa)
RespSemPreco == [RespAAA EXCEPT !.fast = Ans("absent"), !.hist5d = Ans("empty")]
RespTickerExc == [RespAAA EXCEPT !.Ticker = Exc(80)]
\* a success, a classified failure, an exception inside the fetch
BatchResps == {RespBoa, RespSemPreco, RespTickerExc}

Pendente == [state |-> "PENDING", dur |-> 0, result |-> Returns(None, None, <<>>)]
TimeoutMsg(tk) == tk \o <<": ", "Timeout ou erro critico">>

\* future.result(timeout): how long the caller has to wait for the future,
\* and what it gets: TimeoutError when the wait exceeds the timeout
espera(fut) == IF fut.state = "FINISHED" THEN 0 ELSE fut.dur
future_result(fut, timeout) ==
    IF espera(fut) > timeout THEN Raises(<<>>) ELSE fut.result

\* a slip: a failure is not recorded
guarda_sem_erros(d, e, r) ==
    IF truthy(r.dados) THEN [dados |-> Append(d, r.dados[1]), erros |-> e]
    ELSE [dados |-> d, erros |-> e]
\* lines 410-413 and 556-559: if dados / elif erro
guarda(d, e, r) ==
    IF truthy(r.dados) THEN [dados |-> Append(d, r.dados[1]), erros |-> e]
    ELSE IF truthy(r.erro) THEN [dados |-> d, erros |-> Append(e, r.erro[1])]
    ELSE [dados |-> d, erros |-> e]

\* a slip: the outcome is written over the last one of its collection
recolhe_sobre_o_ultimo(d, e, tk, fut) ==
    LET r == future_result(fut, FutureTimeout)
        menos(q) == SubSeq(q, 1, Len(q) - 1)
    IN  IF r.raised THEN [dados |-> d, erros |-> Append(menos(e), TimeoutMsg(tk))]
        ELSE guarda(menos(d), menos(e), r)
\* lines 407-415: the body of the as_completed loop
recolhe(d, e, tk, fut) ==
    LET r == future_result(fut, FutureTimeout)
    IN  IF r.raised THEN [dados |-> d, erros |-> Append(e, TimeoutMsg(tk))]
        ELSE guarda(d, e, r)

FetchIdle ==
    /\ fpc = "idle"
    /\ ticker = <<>>
    /\ resp = RespAAA
    /\ ret = Returns(None, None, <<>>)
    /\ anterior = None

Init == FetchIdle /\ RunIdle

\* the user acts on the page and the script runs from its top (lines 419-423
\* leave a session state that exists alone); pressing the button is one way
Interage ==
    /\ pc = "idle"
    /\ pc' = "probe"
    /\ analisar' \in BOOLEAN
    /\ conexao' = "?"
    /\ UNCHANGED <<tickers_lista, usar_paralelo, max_workers, filtros, futures,
                   snapshot, finished_futures, yielded, idx, dados_coletados, erros,
                   df_filtrado, df_display, df_resultados, fetchVars, concluidos>>

\* a slip: the error is shown and the script goes on
Probe_sem_stop ==
    /\ pc = "probe"
    /\ conexao' \in {"ok", "falhou"}
    /\ pc' = "button"
    /\ UNCHANGED <<tickers_lista, usar_paralelo, max_workers, filtros, futures,
                   snapshot, finished_futures, yielded, idx, dados_coletados, erros,
                   df_filtrado, df_display, df_resultados, analisar, fetchVars,
                   concluidos>>
\* lines 187-193 and 511-513: the probe answers 200, or anything else or
\* raises; st.stop() ends this run of the script
Probe ==
    /\ pc = "probe"
    /\ conexao' \in {"ok", "falhou"}
    /\ pc' = IF conexao' = "ok" THEN "button" ELSE "stopped"
    /\ UNCHANGED <<tickers_lista, usar_paralelo, max_workers, filtros, futures,
                   snapshot, finished_futures, yielded, idx, dados_coletados, erros,
                   df_filtrado, df_display, df_resultados, analisar, fetchVars,
                   concluidos>>

\* line 521: the button was not pressed, the script ends after the footer
SemAnalise ==
    /\ pc = "button"
    /\ ~analisar
    /\ pc' = "fim"
    /\ UNCHANGED <<tickers_lista, usar_paralelo, max_workers, filtros, futures,
                   snapshot, finished_futures, yielded, idx, dados_coletados, erros,
                   df_filtrado, df_display, df_resultados, analisar, conexao,
                   fetchVars, concluidos>>

\* lines 518-544: the button was pressed with a non-empty list, in one of the
\* given modes of the checkbox
AnalisarModo(modos) ==
    /\ pc = "button"
    /\ analisar
    /\ \E l \in Listas : \E par \in modos : \E w \in Workers(par) :
          /\ tickers_lista' = l
          /\ usar_paralelo' = par
          /\ max_workers' = w
          /\ pc' = IF par THEN "submit" ELSE "seq"
    /\ filtros' = FiltrosPadrao
    /\ dados_coletados' = <<>>
    /\ erros' = <<>>
    /\ futures' = <<>>
    /\ idx' = 0
    /\ UNCHANGED <<snapshot, finished_futures, yielded, df_filtrado, df_display,
                   df_resultados, analisar, conexao, fetchVars, concluidos>>
Analisar == AnalisarModo(BOOLEAN)

\* lines 401-404: executor.submit for the next ticker
Submit ==
    /\ pc = "submit"
    /\ idx < Len(tickers_lista)
    /\ futures' = Append(futures, Pendente)
    /\ idx' = idx + 1
    /\ UNCHANGED <<pc, tickers_lista, usar_paralelo, max_workers, filtros, snapshot,
                   finished_futures, yielded, dados_coletados, erros, df_filtrado,
                   df_display, df_resultados, fetchVars, analisar, conexao,
                   concluidos>>

\* a pool thread takes the oldest queued task
WorkerStart(i) ==
    /\ futures[i].state = "PENDING"
    /\ \A j \in 1..(i - 1) : futures[j].state # "PENDING"
    /\ Cardinality({j \in 1..Len(futures) : futures[j].state = "RUNNING"}) < max_workers
    /\ futures' = [futures EXCEPT ![i].state = "RUNNING"]
    /\ UNCHANGED <<pc, tickers_lista, usar_paralelo, max_workers, filtros, snapshot,
                   finished_futures, yielded, idx, dados_coletados, erros,
                   df_filtrado, df_display, df_resultados, fetchVars, analisar, conexao,
                   concluidos>>

\* the task's call of get_yahoo_data_enhanced returns and the future is set
WorkerFinish(i) ==
    /\ futures[i].state = "RUNNING"
    /\ \E rs \in BatchResps : \E d \in Duracoes :
          futures' = [futures EXCEPT ![i] =
                         [state |-> "FINISHED", dur |-> d,
                          result |-> get_yahoo_data_enhanced(tickers_lista[i], rs)]]
    /\ finished_futures' = IF pc = "as_completed" THEN Append(finished_futures, i)
                           ELSE finished_futures
    /\ concluidos' = Append(concluidos, i)
    /\ UNCHANGED <<pc, tickers_lista, usar_paralelo, max_workers, filtros, snapshot,
                   yielded, idx, dados_coletados, erros, df_filtrado, df_display,
                   df_resultados, fetchVars, analisar, conexao>>

\* line 406: as_completed(future_to_ticker) notes the futures already finished
\* and installs its waiter on the others
AsCompleted ==
    /\ pc = "submit"
    /\ idx = Len(tickers_lista)
    /\ pc' = "as_completed"
    /\ snapshot' = {i \in 1..Len(futures) : futures[i].state = "FINISHED"}
    /\ finished_futures' = <<>>
    /\ yielded' = {}
    /\ UNCHANGED <<tickers_lista, usar_paralelo, max_workers, filtros, futures, idx,
                   dados_coletados, erros, df_filtrado, df_display, df_resultados,
                   fetchVars, analisar, conexao, concluidos>>

\* lines 406-417: as_completed yields a finished future (first those of the
\* snapshot, a set, then the waiter's in their order of completion) and the
\* loop body records it; after the last one the function returns
Yield(i) ==
    /\ pc = "as_completed"
    /\ \/ i \in snapshot
       \/ snapshot = {} /\ finished_futures # <<>> /\ i = Head(finished_futures)
    /\ snapshot' = snapshot \ {i}
    /\ finished_futures' = IF i \in snapshot THEN finished_futures
                           ELSE Tail(finished_futures)
    /\ yielded' = yielded \cup {i}
    /\ LET n == recolhe(dados_coletados, erros, tickers_lista[i], futures[i])
       IN  dados_coletados' = n.dados /\ erros' = n.erros
    /\ pc' = IF yielded' = 1..Len(futures) THEN "results" ELSE "as_completed"
    /\ concluidos' = SelectSeq(concluidos, LAMBDA j : j # i)
    /\ UNCHANGED <<tickers_lista, usar_paralelo, max_workers, filtros, futures, idx,
                   df_filtrado, df_display, df_resultados, fetchVars, analisar, conexao>>

\* lines 546-561: one iteration of the sequential loop; an exception of the
\* call would leave the script
SeqStep ==
    /\ pc = "seq"
    /\ \E rs \in BatchResps :
          LET r == get_yahoo_data_enhanced(tickers_lista[idx + 1], rs)
              n == guarda(dados_coletados, erros, r)
          IN  IF r.raised
              THEN pc' = "crashed" /\ UNCHANGED <<dados_coletados, erros>>
              ELSE /\ dados_coletados' = n.dados
                   /\ erros' = n.erros
                   /\ pc' = IF idx + 1 = Len(tickers_lista) THEN "results" ELSE "seq"
    /\ idx' = idx + 1
    /\ UNCHANGED <<tickers_lista, usar_paralelo, max_workers, filtros, futures,
                   snapshot, finished_futures, yielded, df_filtrado, df_display,
                   df_resultados, fetchVars, analisar, conexao, concluidos>>

\* lines 574-632 and 847-859: the results of the run
Resultados ==
    /\ pc = "results"
    /\ pc' = "done"
    /\ IF dados_coletados # <<>>
       THEN /\ df_filtrado' = Some(filtra(dados_coletados, filtros))
            /\ df_resultados' = df_filtrado'
            /\ IF df_filtrado'[1] # <<>>
               THEN \E o \in sort_values(df_filtrado'[1]) : df_display' = Some(o)
               ELSE df_display' = None
       ELSE /\ df_filtrado' = None
            /\ df_display' = None
            /\ UNCHANGED df_resultados
    /\ UNCHANGED <<tickers_lista, usar_paralelo, max_workers, filtros, futures,
                   snapshot, finished_futures, yielded, idx, dados_coletados, erros,
                   fetchVars, analisar, conexao, concluidos>>

Worker == \E i \in 1..Len(futures) : WorkerStart(i) \/ WorkerFinish(i)
Main == Submit \/ AsCompleted \/ (\E i \in 1..Len(futures) : Yield(i)) \/ SeqStep
            \/ Resultados
Inicio == Interage \/ Probe \/ SemAnalise
Next == Inicio \/ Analisar \/ Worker \/ Main
Spec == Init /\ [][Next]_vars
\* every started thread runs on: the pool threads and the script's thread
SpecLive == Spec /\ WF_vars(Worker) /\ WF_vars(Main)

(***************************************************************************)
(* SpecSession: one browser session, the script run again and again in the  *)
(* sequential mode; only st.session_state outlives a run of the script     *)
(***************************************************************************)
AnalisarSequencial == AnalisarModo({FALSE})

\* the user acts on the page after a run of the script has ended: the script
\* starts again with fresh locals and the same session state
Rerun ==
    /\ pc \in {"done", "fim", "stopped"}
    /\ pc' = "probe"
    /\ analisar' \in BOOLEAN
    /\ conexao' = "?"
    /\ tickers_lista' = <<>>
    /\ usar_paralelo' = FALSE
    /\ max_workers' = 1
    /\ filtros' = <<>>
    /\ futures' = <<>>
    /\ snapshot' = {}
    /\ finished_futures' = <<>>
    /\ yielded' = {}
    /\ idx' = 0
    /\ dados_coletados' = <<>>
    /\ erros' = <<>>
    /\ df_filtrado' = None
    /\ df_display' = None
    /\ UNCHANGED <<df_resultados, fetchVars, concluidos>>

NextSession == Inicio \/ AnalisarSequencial \/ SeqStep \/ Resultados \/ Rerun
SpecSession == Init /\ [][NextSession]_vars

(***************************************************************************)
(* SpecScreen: the results of a sequential run whose fetches all succeeded, *)
(* over records on both sides of every threshold                           *)
(***************************************************************************)
MaxColetados == 3

\* on every threshold of FiltrosNoLimite at once
InfoLimite ==
    [InfoBoa EXCEPT !["dividendYield"] = Num(8, 1), !["returnOnEquity"] = Num(10, 100),
                    !["trailingEps"] = Num(0, 1), !["trailingPE"] = Num(20, 1),
                    !["bookValue"] = Num(20, 1), !["profitMargins"] = Num(0, 1),
                    !["currentRatio"] = Num(0, 1), !["debtToEquity"] = Num(2, 1)]
InfosScreen ==
    {InfoBoa, InfoLimite,
     [InfoBoa EXCEPT !["dividendYield"] = Num(3, 100)],
     [InfoBoa EXCEPT !["returnOnEquity"] = Num(5, 100)],
     [InfoBoa EXCEPT !["trailingEps"] = Num(0, 1)],
     [InfoBoa EXCEPT !["trailingPE"] = Num(25, 1)],
     [InfoBoa EXCEPT !["bookValue"] = Num(0, 1)],
     [InfoBoa EXCEPT !["bookValue"] = Num(15, 1)],
     [InfoBoa EXCEPT !["debtToEquity"] = Num(3, 1)],
     [InfoBoa EXCEPT !["sector"] = Str("Financial Services")],
     [InfoLimite EXCEPT !["dividendYield"] = Num(4, 1)]}
\* what was fetched: the symbol and the provider's answer
Coletas ==
    {<<t, Com(InfoBoa)>> : t \in Simbolos}
    \cup {<<(<<"PETR4">>), Com(i)>> : i \in InfosScreen}
    \cup {<<(<<"PETR4">>), [Com(InfoBoa) EXCEPT !.fast = Ans("absent"),
                                                !.hist5d = Rows(NaN)]>>}
FiltrosNoLimite == [FiltrosPadrao EXCEPT !.min_dy = R(8, 1), !.setor = "Energia"]
FiltrosScreen ==
    {FiltrosPadrao, FiltrosNoLimite, [FiltrosPadrao EXCEPT !.setor = "Financeiro"]}

InitScreen ==
    /\ FetchIdle
    /\ pc = "results"
    /\ \E n \in 1..MaxColetados : \E cs \in [1..n -> Coletas] :
          /\ tickers_lista = [i \in 1..n |-> cs[i][1]]
          /\ dados_coletados =
                [i \in 1..n |-> get_yahoo_data_enhanced(cs[i][1], cs[i][2]).dados[1]]
          /\ idx = n
    /\ usar_paralelo = FALSE
    /\ max_workers = 1
    /\ filtros \in FiltrosScreen
    /\ futures = <<>>
    /\ snapshot = {}
    /\ finished_futures = <<>>
    /\ yielded = {}
    /\ erros = <<>>
    /\ df_filtrado = None
    /\ df_display = None
    /\ df_resultados = None
    /\ analisar = TRUE
    /\ conexao = "ok"
    /\ concluidos = <<>>

NextScreen == Resultados
SpecScreen == InitScreen /\ [][NextScreen]_vars

(***************************************************************************)
(* Properties of the batch collector                                       *)
(***************************************************************************)
Retornou == pc \in {"results", "done"}
Conta(seq, Teste(_)) == Cardinality({i \in 1..Len(seq) : Teste(seq[i])})
\* the symbol a failure message starts with
SimboloDe(msg) ==
    LET k == CHOOSE i \in 1..Len(msg) :
                 msg[i] = ": " /\ \A j \in 1..(i - 1) : msg[j] # ": "
    IN  ticker_clean(SubSeq(msg, 1, k - 1))
Relatados(s) ==
    [ok |-> Conta(dados_coletados, LAMBDA d : d.Acao = s),
     falha |-> Conta(erros, LAMBDA m : SimboloDe(m) = s),
     pedidos |-> Conta(tickers_lista, LAMBDA t : ticker_clean(t) = s)]

\* C1: when the batch has finished, in both modes, every symbol of the list
\* (with multiplicity) has exactly one outcome, a record or a failure, so that
\* successes + failures = N; and before that no symbol has more outcomes than
\* requests.
C1_ExactlyOneOutcome ==
    /\ \A t \in Simbolos :
          LET r == Relatados(ticker_clean(t))
          IN  /\ r.ok + r.falha <= r.pedidos
              /\ Retornou => r.ok + r.falha = r.pedidos
    /\ Retornou => Len(dados_coletados) + Len(erros) = Len(tickers_lista)
C1_Witness ==
    /\ pc = "results"
    /\ usar_paralelo
    /\ tickers_lista[1] = tickers_lista[2]
    /\ Len(dados_coletados) = 1
    /\ Len(erros) = Len(tickers_lista) - 1

\* C2: once started, the batch collector always eventually returns its
\* (successes, failures), whatever the fetches give (success, failure,
\* exception), also when every symbol fails.
C2_BatchCompletes == (pc \in {"submit", "as_completed", "seq"}) ~> (pc = "results")
C2_Witness ==
    /\ pc = "results"
    /\ dados_coletados = <<>>
    /\ Len(erros) = Len(tickers_lista)
    /\ \E i \in 1..Len(erros) : erros[i] = <<"PETR4", ": ">> \o Slice(Text(80), 50)

\* C3 as claimed: the collector records exactly the fetches that took longer
\* than the timeout as failures "Timeout ou erro critico", and when every
\* fetch did, it returns no success and N such failures.
Lento(i) == futures[i].dur > FutureTimeout
C3_SlowFetchesAreTimeouts ==
    (pc = "results" /\ usar_paralelo) =>
        /\ \A t \in Simbolos :
              Conta(erros, LAMBDA m : m = TimeoutMsg(t))
                 = Cardinality({i \in 1..Len(futures) : Lento(i) /\ tickers_lista[i] = t})
        /\ (\A i \in 1..Len(futures) : Lento(i)) =>
              /\ dados_coletados = <<>>
              /\ Len(erros) = Len(tickers_lista)

(***************************************************************************)
(* Properties of the script around the batch                               *)
(***************************************************************************)
Despachado == pc \in {"submit", "as_completed", "seq", "results", "done"}
NadaTentado ==
    /\ tickers_lista = <<>>
    /\ futures = <<>>
    /\ idx = 0
    /\ dados_coletados = <<>>
    /\ erros = <<>>

SemRepetidos ==
    \A i, j \in 1..Len(tickers_lista) :
        ticker_clean(tickers_lista[i]) = ticker_clean(tickers_lista[j]) => i = j
Acabou(i) == futures[i].state = "FINISHED"
\* task i completed before every other task that waits to be taken
MaisAntigo(i) == concluidos # <<>> /\ Head(concluidos) = i

C12_HeldResultIsLatestRun ==
    pc = "done" =>
        IF df_filtrado # None THEN df_resultados = df_filtrado
        ELSE df_resultados \in {None, Some(<<>>)}

(***************************************************************************)
(* Properties of the screener                                              *)
(***************************************************************************)
\* the thresholds of the specification, all at once
Atende(d, f) ==
    /\ ~Lt(d.DY, f.min_dy) /\ ~IsNaN(d.DY)
    /\ ~Lt(d.ROE, f.min_roe) /\ ~IsNaN(d.ROE)
    /\ Lt(Zero, d.P_L) /\ ~Gt(d.P_L, f.max_pl)
    /\ Lt(Zero, d.P_VP) /\ ~Gt(d.P_VP, f.max_pvp)
    /\ ~Gt(d.Divida_PL, f.max_divida) /\ ~IsNaN(d.Divida_PL)
    /\ ~(d.Score < f.min_score)
    /\ (f.setor = "Todos" \/ d.Setor = f.setor)
\* the places of the rows of df that meet the thresholds, in order
Lugares(df, f) == {i \in 1..Len(df) : Atende(df[i], f)}
Ordem(S, k) == CHOOSE i \in S : Cardinality({j \in S : j < i}) = k - 1

\* C6: the filtered table is exactly the collected records that meet all the
\* thresholds (and the sector, unless it is "Todos"), in their order: none that
\* fails one is kept and none that meets all is dropped.
C6_FilterKeepsExactlyMatches ==
    (pc = "done" /\ dados_coletados # <<>>) =>
        LET S == Lugares(dados_coletados, filtros)
            kept == df_filtrado[1]
        IN  /\ Len(kept) = Cardinality(S)
            /\ \A k \in 1..Len(kept) : kept[k] = dados_coletados[Ordem(S, k)]
            /\ df_resultados = df_filtrado
C6_Witness ==
    /\ pc = "done"
    /\ filtros = FiltrosNoLimite
    /\ Len(dados_coletados) = 3
    /\ Len(df_filtrado[1]) = 1
    /\ df_filtrado[1][1].Score = 40
    /\ df_filtrado[1][1].P_L = R(2000, 100)

\* the stable descending sort: a row moves left only past smaller scores
RECURSIVE Insere(_, _)
Insere(sorted, d) ==
    IF sorted = <<>> THEN <<d>>
    ELSE IF sorted[Len(sorted)].Score >= d.Score THEN Append(sorted, d)
    ELSE Append(Insere(SubSeq(sorted, 1, Len(sorted) - 1), d), sorted[Len(sorted)])
RECURSIVE Estavel(_)
Estavel(df) ==
    IF df = <<>> THEN <<>>
    ELSE Insere(Estavel(SubSeq(df, 1, Len(df) - 1)), df[Len(df)])

\* C7 as claimed: the table is ordered by score descending and rows of equal
\* score keep their relative order.
C7_StableDescending ==
    (pc = "done" /\ df_display # None) => df_display[1] = Estavel(df_filtrado[1])

\* what line 631 does give: the filtered rows, each once, by score descending
DecrescentePermutacao ==
    (pc = "done" /\ df_filtrado # None) =>
        IF df_filtrado[1] = <<>> THEN df_display = None
        ELSE /\ df_display # None
             /\ Len(df_display[1]) = Len(df_filtrado[1])
             /\ \A i \in 1..(Len(df_display[1]) - 1) :
                   df_display[1][i].Score >= df_display[1][i + 1].Score
             /\ \A d \in {df_filtrado[1][i] : i \in 1..Len(df_filtrado[1])} :
                   Conta(df_display[1], LAMBDA x : x = d)
                      = Conta(df_filtrado[1], LAMBDA x : x = d)

====
